---------------------------- MODULE Spec2Model ----------------------------
(***************************************************************************)
(* Model of scripts/utils/processing.py: statistical test runners, data    *)
(* shaping utilities and the cost-savings analysis, over an in-memory      *)
(* table (a pandas DataFrame).                                             *)
(*                                                                         *)
(* A table is a record [columns, index, rows]: the set of column names,    *)
(* the sequence of row labels (1..n for a caller's table, kept by a        *)
(* filter) and the sequence of rows, each a function from column name to   *)
(* cell.                                                                   *)
(* Numbers are IEEE-like extended rationals <<n, d>>: d > 0 is the finite  *)
(* value n/d in lowest terms, <<0, 0>> is NaN (also the missing numeric    *)
(* cell), <<1, 0>> is +inf and <<-1, 0>> is -inf.  A missing categorical   *)
(* cell is NA.                                                             *)
(***************************************************************************)
EXTENDS Integers, Sequences, FiniteSets, TLC

VARIABLES data, call, result

vars == <<data, call, result>>

\* ------------------------------------------------------------------ bounds

\* Largest number of rows of an input table.
MaxRows == 3

\* ----------------------------------------------------------------- numbers

NaN == <<0, 0>>
PosInf == <<1, 0>>
NegInf == <<-1, 0>>
Fin(n) == <<n, 1>>

IsNaN(a) == a = NaN
IsFinite(a) == a[2] > 0

Abs(n) == IF n < 0 THEN -n ELSE n

RECURSIVE GCD(_, _)
GCD(a, b) == IF b = 0 THEN a ELSE GCD(b, a % b)

\* n/d in lowest terms with a positive denominator (d # 0).
Norm(n, d) ==
    LET s == IF d < 0 THEN -1 ELSE 1
        g == GCD(Abs(n), Abs(d))
    IN  <<(s * n) \div g, (s * d) \div g>>

\* a - b on floats: NaN propagates, inf - inf (same sign) is NaN.
FloatSub(a, b) ==
    IF IsNaN(a) \/ IsNaN(b) THEN NaN
    ELSE IF IsFinite(a) /\ IsFinite(b)
         THEN Norm(a[1] * b[2] - b[1] * a[2], a[2] * b[2])
    ELSE IF IsFinite(a) THEN <<-b[1], 0>>
    ELSE IF IsFinite(b) THEN a
    ELSE IF a = b THEN NaN ELSE a

\* a / b on float columns: no exception on a zero divisor; 0/0 is NaN and
\* x/0 is +inf or -inf by the sign of x.
FloatDiv(a, b) ==
    IF IsNaN(a) \/ IsNaN(b) THEN NaN
    ELSE IF IsFinite(a) /\ IsFinite(b)
         THEN IF b[1] = 0
              THEN (IF a[1] = 0 THEN NaN ELSE IF a[1] > 0 THEN PosInf ELSE NegInf)
              ELSE Norm(a[1] * b[2], a[2] * b[1])
    ELSE IF IsFinite(a) THEN Fin(0)
    ELSE IF IsFinite(b) THEN (IF b[1] < 0 THEN <<-a[1], 0>> ELSE a)
    ELSE NaN

\* a * k for an integer literal k > 0.
FloatScale(a, k) ==
    IF IsFinite(a) THEN Norm(a[1] * k, a[2]) ELSE a

\* a > b on floats: false whenever either side is NaN.
FloatGt(a, b) ==
    IF IsNaN(a) \/ IsNaN(b) THEN FALSE
    ELSE IF a[2] = 0 /\ b[2] = 0 THEN a[1] > b[1]
    ELSE a[1] * b[2] > b[1] * a[2]

\* a < b on floats: false whenever either side is NaN.
FloatLt(a, b) == FloatGt(b, a)

\* ------------------------------------------------------------------ tables

\* The missing categorical cell.
NA == "NA"

\* The categorical values, in ascending order (the order groupby sorts by).
KeyOrder == <<"A", "B", "C">>
Keys == {KeyOrder[i] : i \in 1..Len(KeyOrder)}

\* Outcomes of a call: a normal return with a value, or an exception.
Return(v) == [raised |-> "", value |-> v]
Raise(e) == [raised |-> e, value |-> <<>>]
KeyError == Raise("KeyError")

\* Python's None.
None == "None"

\* A caller's table: n rows labelled 1..n.
Table(columns, rows) ==
    [columns |-> columns, index |-> [i \in 1..Len(rows) |-> i], rows |-> rows]

HasColumns(df, names) == names \subseteq df.columns

\* Series.sum(): missing cells are skipped, the empty sum is 0.
RECURSIVE SeriesSum(_)
SeriesSum(cells) ==
    IF cells = <<>> THEN Fin(0)
    ELSE IF IsNaN(Head(cells)) THEN SeriesSum(Tail(cells))
    ELSE LET rest == SeriesSum(Tail(cells))
         IN  Norm(Head(cells)[1] * rest[2] + rest[1] * Head(cells)[2],
                  Head(cells)[2] * rest[2])

\* Series.count(): the number of non-missing cells.
RECURSIVE SeriesCount(_)
SeriesCount(cells) ==
    IF cells = <<>> THEN 0
    ELSE (IF IsNaN(Head(cells)) THEN 0 ELSE 1) + SeriesCount(Tail(cells))

\* Mutant of SeriesMean: the sum over the number of cells, missing or not.
SeriesMean_OverAllCells(cells) == FloatDiv(SeriesSum(cells), Fin(Len(cells)))

\* Series.mean(): the sum of the non-missing cells over their count, NaN
\* when there is none.
SeriesMean(cells) == FloatDiv(SeriesSum(cells), Fin(SeriesCount(cells)))

\* df[col] as a sequence of cells.
Column(rows, col) == [i \in 1..Len(rows) |-> rows[i][col]]

\* DataFrame.groupby(col) with its defaults sort=True, dropna=True: the
\* distinct non-missing keys in ascending order.
GroupKeys(rows, col) ==
    SelectSeq(KeyOrder, LAMBDA k : \E i \in 1..Len(rows) : rows[i][col] = k)

\* The rows of one group, in input order.
GroupRows(rows, col, k) == SelectSeq(rows, LAMBDA r : r[col] = k)

\* ----------------------------------------------------- cost-savings analysis

\* Mutant of SavingsRow: the difference taken the wrong way round.
SavingsRow_ClaimsMinusCost(k, totalCost, totalClaims) ==
    LET potential == FloatSub(totalClaims, totalCost)
    IN  [group |-> k,
         TotalCost |-> totalCost,
         TotalClaims |-> totalClaims,
         SavingsPotential |-> potential,
         SavingsPercentage |-> FloatScale(FloatDiv(potential, totalCost), 100)]

\* One row of the savings summary, from a group's aggregated sums.
SavingsRow(k, totalCost, totalClaims) ==
    LET potential == FloatSub(totalCost, totalClaims)
    IN  [group |-> k,
         TotalCost |-> totalCost,
         TotalClaims |-> totalClaims,
         SavingsPotential |-> potential,
         SavingsPercentage |-> FloatScale(FloatDiv(potential, totalCost), 100)]

calculate_cost_savings(df, group_col, cost_col, claim_col) ==
    IF ~HasColumns(df, {group_col, cost_col, claim_col}) THEN KeyError
    ELSE LET keys == GroupKeys(df.rows, group_col)
         IN  Return([i \in 1..Len(keys) |->
                 LET grp == GroupRows(df.rows, group_col, keys[i])
                 IN  SavingsRow(keys[i],
                                SeriesSum(Column(grp, cost_col)),
                                SeriesSum(Column(grp, claim_col)))])

\* Mutant of FilterAbove: >= in place of >.
FilterAbove_Inclusive(summary, threshold) ==
    SelectSeq(summary, LAMBDA r : ~FloatLt(r.SavingsPercentage, threshold)
                                     /\ ~IsNaN(r.SavingsPercentage))

\* The rows of the summary with SavingsPercentage > threshold, in order.
FilterAbove(summary, threshold) ==
    SelectSeq(summary, LAMBDA r : FloatGt(r.SavingsPercentage, threshold))

IsNonIncreasing(s) ==
    \A i \in 1..Len(s) - 1 :
        ~FloatGt(s[i + 1].SavingsPercentage, s[i].SavingsPercentage)

\* Mutant of SortValuesDescending: ascending=False left out.
SortValuesDescending_Ascending(s) ==
    LET n == Len(s)
        perms == {p \in [1..n -> 1..n] : \A i, j \in 1..n : p[i] = p[j] => i = j}
    IN  {t \in {[i \in 1..n |-> s[p[i]]] : p \in perms} :
            \A i \in 1..n - 1 :
                ~FloatGt(t[i].SavingsPercentage, t[i + 1].SavingsPercentage)}

\* sort_values(by="SavingsPercentage", ascending=False) with the default
\* kind="quicksort".  pandas documents only mergesort and stable as stable
\* sorts; numpy's quicksort (an introsort, vectorised on some processors)
\* may exchange rows of equal key, and which it exchanges depends on the
\* build and the length.  The order among equal keys is therefore a choice:
\* every arrangement of the rows in non-increasing key order is a possible
\* outcome.
SortValuesDescending(s) ==
    LET n == Len(s)
        perms == {p \in [1..n -> 1..n] : \A i, j \in 1..n : p[i] = p[j] => i = j}
    IN  {t \in {[i \in 1..n |-> s[p[i]]] : p \in perms} : IsNonIncreasing(t)}

\* The possible returns of rank_savings_opportunities.
rank_savings_opportunities(savings_summary, threshold) ==
    {Return(t) : t \in SortValuesDescending(FilterAbove(savings_summary, threshold))}

\* ------------------------------------------------- statistical test runners

\* The significance threshold 0.05.
SignificanceLevel == <<1, 20>>

\* Mutant of Significant: <= in place of <.
Significant_AtMost(p_value) ==
    FloatLt(p_value, SignificanceLevel) \/ p_value = SignificanceLevel

\* p_value < 0.05.
Significant(p_value) == FloatLt(p_value, SignificanceLevel)

\* The result record of a test runner, from what the statistics routine
\* produced: it raised, or it returned a statistic and a p-value.
TestResult(outcome) ==
    IF outcome.raises THEN Raise("ValueError")
    ELSE Return([stat |-> outcome.stat,
                 p_value |-> outcome.p_value,
                 significant |-> Significant(outcome.p_value)])

\* outcome stands for ttest_ind(group_a[metric], group_b[metric], ...).
perform_t_test(group_a, group_b, metric, outcome) ==
    IF ~HasColumns(group_a, {metric}) \/ ~HasColumns(group_b, {metric}) THEN KeyError
    ELSE TestResult(outcome)

\* outcome stands for chi2_contingency(contingency_table).
perform_chi2_test(contingency_table, outcome) == TestResult(outcome)

\* outcome stands for f_oneway(*groups).
perform_anova_test(groups, outcome) == TestResult(outcome)

\* outcome stands for mannwhitneyu(group_a[metric], group_b[metric], ...).
perform_mannwhitneyu_test(group_a, group_b, metric, outcome) ==
    IF ~HasColumns(group_a, {metric}) \/ ~HasColumns(group_b, {metric}) THEN KeyError
    ELSE TestResult(outcome)

\* --------------------------------------------------- data shaping utilities

\* Mutant of AboveThreshold: >= in place of >.
AboveThreshold_Inclusive(cell, threshold) ==
    FloatGt(cell, threshold) \/ (~IsNaN(cell) /\ cell = threshold)

\* df[column2] > threshold, cell by cell: False for a missing cell.
AboveThreshold(cell, threshold) == FloatGt(cell, threshold)

\* pd.crosstab(rows, cols) with its default dropna=True: the row labels are
\* the distinct non-missing values of column1 in ascending order, the column
\* labels the booleans occurring with them (False before True), the cells
\* the counts of input rows.
generate_contingency_table(df, column1, column2, threshold) ==
    IF ~HasColumns(df, {column1, column2}) THEN KeyError
    ELSE LET keys == GroupKeys(df.rows, column1)
             keySet == {keys[i] : i \in 1..Len(keys)}
             flag(r) == AboveThreshold(r[column2], threshold)
             kept == SelectSeq(df.rows, LAMBDA r : r[column1] \in keySet)
             flags == SelectSeq(<<FALSE, TRUE>>,
                                LAMBDA b : \E i \in 1..Len(kept) : flag(kept[i]) = b)
             flagSet == {flags[i] : i \in 1..Len(flags)}
         IN  Return([index |-> keys,
                     columns |-> flags,
                     cells |-> [c \in keySet \X flagSet |->
                         Len(SelectSeq(kept,
                             LAMBDA r : r[column1] = c[1] /\ flag(r) = c[2]))]])

\* Series.isin(values): a missing cell matches a missing value.
IsIn(cell, values) == cell \in values

\* df[mask] for a boolean mask: the rows (and their labels) at the positions
\* where the mask holds, in order.
RECURSIVE MaskPositions(_, _)
MaskPositions(mask, i) ==
    IF i > Len(mask) THEN <<>>
    ELSE (IF mask[i] THEN <<i>> ELSE <<>>) \o MaskPositions(mask, i + 1)

Take(df, mask) ==
    LET pos == MaskPositions(mask, 1)
    IN  [columns |-> df.columns,
         index |-> [j \in 1..Len(pos) |-> df.index[pos[j]]],
         rows |-> [j \in 1..Len(pos) |-> df.rows[pos[j]]]]

\* Mutant of segment_data: group B taken as the rows outside group A.
segment_data_Complement(df, column, values_group_a, values_group_b) ==
    IF ~HasColumns(df, {column}) THEN KeyError
    ELSE Return(<<Take(df, [i \in 1..Len(df.rows) |-> IsIn(df.rows[i][column], values_group_a)]),
                  Take(df, [i \in 1..Len(df.rows) |-> ~IsIn(df.rows[i][column], values_group_a)])>>)

segment_data(df, column, values_group_a, values_group_b) ==
    IF ~HasColumns(df, {column}) THEN KeyError
    ELSE Return(<<Take(df, [i \in 1..Len(df.rows) |-> IsIn(df.rows[i][column], values_group_a)]),
                  Take(df, [i \in 1..Len(df.rows) |-> IsIn(df.rows[i][column], values_group_b)])>>)

\* The set of names listed in metrics.
MetricSet(metrics) == {metrics[i] : i \in 1..Len(metrics)}

\* One row of the aggregate: the group key and, per metric, sum and mean.
AggregateRow(k, grp, metrics) ==
    [group |-> k,
     agg |-> [m \in MetricSet(metrics) |->
                 [sum |-> SeriesSum(Column(grp, m)),
                  mean |-> SeriesMean(Column(grp, m))]]]

aggregate_by_group(df, group_column, metrics) ==
    IF ~HasColumns(df, {group_column} \cup MetricSet(metrics)) THEN KeyError
    ELSE LET keys == GroupKeys(df.rows, group_column)
         IN  Return([i \in 1..Len(keys) |->
                 AggregateRow(keys[i], GroupRows(df.rows, group_column, keys[i]), metrics)])

\* data[column] == condition, cell by cell: False for a missing cell.
EqualsCondition(cell, condition) == cell # NA /\ cell = condition

\* Mutant of compute_metric: every operation other than 'mean' sums.
compute_metric_ElseSum(df, column, condition, metric_col, operation) ==
    IF ~HasColumns(df, {column}) THEN KeyError
    ELSE LET subset == Take(df, [i \in 1..Len(df.rows) |->
                                     EqualsCondition(df.rows[i][column], condition)])
         IN  IF ~HasColumns(subset, {metric_col}) THEN KeyError
             ELSE IF operation = "mean"
             THEN Return(SeriesMean(Column(subset.rows, metric_col)))
             ELSE Return(SeriesSum(Column(subset.rows, metric_col)))

compute_metric(df, column, condition, metric_col, operation) ==
    IF ~HasColumns(df, {column}) THEN KeyError
    ELSE LET subset == Take(df, [i \in 1..Len(df.rows) |->
                                     EqualsCondition(df.rows[i][column], condition)])
         IN  IF operation = "mean"
             THEN (IF ~HasColumns(subset, {metric_col}) THEN KeyError
                   ELSE Return(SeriesMean(Column(subset.rows, metric_col))))
             ELSE IF operation = "sum"
             THEN (IF ~HasColumns(subset, {metric_col}) THEN KeyError
                   ELSE Return(SeriesSum(Column(subset.rows, metric_col))))
             ELSE Return(None)

\* ---------------------------------------------------- inputs: cost savings

CostValues == {Fin(0), Fin(1)}
ClaimValues == {Fin(-1), Fin(0), Fin(1)}
Thresholds == {Fin(0), Fin(100)}

SavingsRowValues ==
    {[g |-> k, x |-> c, y |-> l] : k \in Keys \cup {NA}, c \in CostValues, l \in ClaimValues}

SavingsTables ==
    {Table({"g", "x", "y"}, r) :
        r \in UNION {[1..n -> SavingsRowValues] : n \in 0..MaxRows}}

NoCall == [fn |-> "none"]

\* --------------------------------------------------- actions: cost savings

CallCalculateCostSavings ==
    /\ call = NoCall
    /\ call' = [fn |-> "calculate_cost_savings",
                group_col |-> "g", cost_col |-> "x", claim_col |-> "y"]
    /\ result' = calculate_cost_savings(data, "g", "x", "y")
    /\ UNCHANGED data

CallRankSavingsOpportunities ==
    /\ call.fn = "calculate_cost_savings"
    /\ result.raised = ""
    /\ \E threshold \in Thresholds :
          /\ call' = [fn |-> "rank_savings_opportunities",
                      savings_summary |-> result.value,
                      threshold |-> threshold]
          /\ result' \in rank_savings_opportunities(result.value, threshold)
    /\ UNCHANGED data

InitSavings ==
    /\ data \in SavingsTables
    /\ call = NoCall
    /\ result = Return(<<>>)

NextSavings ==
    \/ CallCalculateCostSavings
    \/ CallRankSavingsOpportunities

SpecSavings == InitSavings /\ [][NextSavings]_vars


\* ------------------------------------------- inputs: runners and shaping

\* Tables of a categorical column g and a numeric column x; no table has a
\* column y.
MetricValues == {NaN, Fin(0), Fin(1)}
ShapeRowValues == {[g |-> k, x |-> v] : k \in {"A", "B", NA}, v \in MetricValues}

ShapeTables ==
    {Table({"g", "x"}, r) :
        r \in UNION {[1..n -> ShapeRowValues] : n \in 0..MaxRows}}

CategoricalNames == {"g", "y"}
NumericNames == {"x", "y"}

\* What a statistics routine may produce: an exception, or any statistic
\* and p-value.
PValues == {Fin(0), <<1, 25>>, <<1, 20>>, <<3, 50>>, Fin(1), NaN}
Statistics == {Fin(0), Fin(2)}
Outcomes ==
    {[raises |-> FALSE, stat |-> st, p_value |-> p] : st \in Statistics, p \in PValues}
        \cup {[raises |-> TRUE, stat |-> NaN, p_value |-> NaN]}

ValueSets == {{}, {"A"}, {"B"}, {"A", "B"}, {"B", NA}}
Conditions == {"A", "B", NA}
Operations == {"mean", "sum", "median"}
MetricLists == {<<"x">>, <<"y">>, <<"x", "y">>}
TableThresholds == {Fin(0), Fin(1)}

\* The two arms the tests compare: the rows of A and the rows of B.
Arms == segment_data(data, "g", {"A"}, {"B"}).value

\* ------------------------------------------ actions: runners and shaping
\* The functions keep no state: a behaviour is one call on the caller's
\* table, or a call followed by the call that consumes its result.

CallPerformTTest ==
    /\ call = NoCall
    /\ \E metric \in NumericNames, outcome \in Outcomes :
          /\ call' = [fn |-> "perform_t_test", metric |-> metric, outcome |-> outcome]
          /\ result' = perform_t_test(Arms[1], Arms[2], metric, outcome)
    /\ UNCHANGED data

CallPerformMannWhitneyUTest ==
    /\ call = NoCall
    /\ \E metric \in NumericNames, outcome \in Outcomes :
          /\ call' = [fn |-> "perform_mannwhitneyu_test",
                      metric |-> metric, outcome |-> outcome]
          /\ result' = perform_mannwhitneyu_test(Arms[1], Arms[2], metric, outcome)
    /\ UNCHANGED data

CallPerformAnovaTest ==
    /\ call = NoCall
    /\ \E outcome \in Outcomes :
          /\ call' = [fn |-> "perform_anova_test", outcome |-> outcome]
          /\ result' = perform_anova_test(
                           <<Column(Arms[1].rows, "x"), Column(Arms[2].rows, "x")>>, outcome)
    /\ UNCHANGED data

CallGenerateContingencyTable ==
    /\ call = NoCall
    /\ \E column1 \in CategoricalNames, column2 \in NumericNames,
          threshold \in TableThresholds :
          /\ call' = [fn |-> "generate_contingency_table", column1 |-> column1,
                      column2 |-> column2, threshold |-> threshold]
          /\ result' = generate_contingency_table(data, column1, column2, threshold)
    /\ UNCHANGED data

\* The independence test runs on the table generate_contingency_table made.
CallPerformChi2Test ==
    /\ call.fn = "generate_contingency_table"
    /\ result.raised = ""
    /\ \E outcome \in Outcomes :
          /\ call' = [fn |-> "perform_chi2_test", outcome |-> outcome]
          /\ result' = perform_chi2_test(result.value, outcome)
    /\ UNCHANGED data

CallSegmentData ==
    /\ call = NoCall
    /\ \E column \in CategoricalNames, a \in ValueSets, b \in ValueSets :
          /\ call' = [fn |-> "segment_data", column |-> column,
                      values_group_a |-> a, values_group_b |-> b]
          /\ result' = segment_data(data, column, a, b)
    /\ UNCHANGED data

CallAggregateByGroup ==
    /\ call = NoCall
    /\ \E group_column \in CategoricalNames, metrics \in MetricLists :
          /\ call' = [fn |-> "aggregate_by_group",
                      group_column |-> group_column, metrics |-> metrics]
          /\ result' = aggregate_by_group(data, group_column, metrics)
    /\ UNCHANGED data

CallComputeMetric ==
    /\ call = NoCall
    /\ \E column \in CategoricalNames, condition \in Conditions,
          metric_col \in NumericNames, operation \in Operations :
          /\ call' = [fn |-> "compute_metric", column |-> column,
                      condition |-> condition, metric_col |-> metric_col,
                      operation |-> operation]
          /\ result' = compute_metric(data, column, condition, metric_col, operation)
    /\ UNCHANGED data

CallCostSavingsOnColumns ==
    /\ call = NoCall
    /\ \E group_col \in CategoricalNames, cost_col \in NumericNames,
          claim_col \in NumericNames :
          /\ call' = [fn |-> "calculate_cost_savings", group_col |-> group_col,
                      cost_col |-> cost_col, claim_col |-> claim_col]
          /\ result' = calculate_cost_savings(data, group_col, cost_col, claim_col)
    /\ UNCHANGED data

Init ==
    /\ data \in ShapeTables
    /\ call = NoCall
    /\ result = Return(<<>>)

Next ==
    \/ CallPerformTTest
    \/ CallPerformChi2Test
    \/ CallPerformAnovaTest
    \/ CallPerformMannWhitneyUTest
    \/ CallGenerateContingencyTable
    \/ CallSegmentData
    \/ CallAggregateByGroup
    \/ CallComputeMetric
    \/ CallCostSavingsOnColumns

Spec == Init /\ [][Next]_vars

\* ------------------------------------------------- statements: cost savings

\* The sum of f over a finite set of indices (the arithmetic sum itself,
\* independent of the code's running sums).
RECURSIVE SumOver(_, _)
SumOver(I, f) ==
    IF I = {} THEN 0
    ELSE LET i == CHOOSE i \in I : TRUE IN f[i] + SumOver(I \ {i}, f)

\* The positions of the input rows holding key k in column col.
RowsOf(col, k) == {i \in 1..Len(data.rows) : data.rows[i][col] = k}

\* p is the rational number n / d (d # 0), whatever its representation.
IsQuotient(p, n, d) == p[2] > 0 /\ p[1] * d = n * p[2]

\* p exceeds the finite threshold t: p is +inf, or a finite number above t.
Exceeds(p, t) == p = PosInf \/ (p[2] > 0 /\ p[1] * t[2] > t[1] * p[2])

\* p ranks strictly above q, for percentages that passed a filter (neither is
\* NaN or -inf): +inf is above every finite number and not above itself.
RanksAbove(p, q) ==
    IF p = PosInf THEN q # PosInf
    ELSE q # PosInf /\ p[1] * q[2] > q[1] * p[2]

AfterCostSavings == call.fn = "calculate_cost_savings" /\ result.raised = ""
AfterRank == call.fn = "rank_savings_opportunities" /\ result.raised = ""

\* C1: calculate_cost_savings returns exactly one row per distinct
\* (non-missing) value of group_col occurring in the input, the key held as
\* a field of the row; in each row TotalCost is the sum of cost_col over the
\* group's input rows, TotalClaims the sum of claim_col over them,
\* SavingsPotential is TotalCost - TotalClaims and, when TotalCost is
\* non-zero, SavingsPercentage is SavingsPotential / TotalCost * 100.
C1_CostSavingsPerGroup ==
    AfterCostSavings =>
        LET s == result.value
            present == {k \in Keys : RowsOf(call.group_col, k) # {}}
        IN  /\ {s[i].group : i \in 1..Len(s)} = present
            /\ Len(s) = Cardinality(present)
            /\ \A i \in 1..Len(s) :
                  LET I == RowsOf(call.group_col, s[i].group)
                      cost == SumOver(I, [j \in I |-> data.rows[j][call.cost_col][1]])
                      claims == SumOver(I, [j \in I |-> data.rows[j][call.claim_col][1]])
                  IN  /\ s[i].TotalCost = <<cost, 1>>
                      /\ s[i].TotalClaims = <<claims, 1>>
                      /\ s[i].SavingsPotential = <<cost - claims, 1>>
                      /\ cost # 0 =>
                            IsQuotient(s[i].SavingsPercentage, (cost - claims) * 100, cost)

\* C1 witness: a summary of two groups, one of them summed over two input
\* rows to TotalCost 2 and TotalClaims 1, with SavingsPercentage 50.
C1_Witness ==
    /\ AfterCostSavings
    /\ Len(result.value) >= 2
    /\ \E i \in 1..Len(result.value) :
          /\ Cardinality(RowsOf("g", result.value[i].group)) = 2
          /\ result.value[i].TotalCost = <<2, 1>>
          /\ result.value[i].TotalClaims = <<1, 1>>
          /\ result.value[i].SavingsPercentage = <<50, 1>>

\* C2: rank_savings_opportunities returns exactly the input rows whose
\* SavingsPercentage is strictly greater than threshold (each once, none
\* added, none equal to or below it), in non-increasing order of
\* SavingsPercentage; with threshold 0 every returned row is above 0.
C2_RankFiltersAndOrders ==
    AfterRank =>
        LET s == call.savings_summary
            t == call.threshold
            r == result.value
        IN  /\ \A i \in 1..Len(s) :
                  Cardinality({j \in 1..Len(r) : r[j] = s[i]}) =
                      (IF Exceeds(s[i].SavingsPercentage, t) THEN 1 ELSE 0)
            /\ \A j \in 1..Len(r) : \E i \in 1..Len(s) : r[j] = s[i]
            /\ \A j \in 1..Len(r) : Exceeds(r[j].SavingsPercentage, t)
            /\ \A j \in 1..Len(r) - 1 :
                  \/ r[j].SavingsPercentage = r[j + 1].SavingsPercentage
                  \/ RanksAbove(r[j].SavingsPercentage, r[j + 1].SavingsPercentage)
            /\ t = <<0, 1>> =>
                  \A j \in 1..Len(r) :
                      r[j].SavingsPercentage = PosInf \/ r[j].SavingsPercentage[1] > 0

\* C2 witness: a ranking at threshold 100 that drops a row at exactly 100
\* and a row below it (at 0), and returns the row above it (at 200).
C2_Witness ==
    /\ AfterRank
    /\ call.threshold = <<100, 1>>
    /\ Len(call.savings_summary) = 3
    /\ \E i \in 1..3 : call.savings_summary[i].SavingsPercentage = <<100, 1>>
    /\ \E i \in 1..3 : call.savings_summary[i].SavingsPercentage = <<0, 1>>
    /\ Len(result.value) = 1
    /\ result.value[1].SavingsPercentage = <<200, 1>>

\* C9 (as claimed): every group whose TotalCost is zero has SavingsPercentage
\* NaN, whatever its TotalClaims, and no such group is ever returned by
\* rank_savings_opportunities.
C9_ZeroCostIsNaN ==
    /\ AfterCostSavings =>
          \A i \in 1..Len(result.value) :
              result.value[i].TotalCost = <<0, 1>> =>
                  result.value[i].SavingsPercentage = NaN
    /\ AfterRank =>
          \A j \in 1..Len(result.value) : result.value[j].TotalCost # <<0, 1>>

\* The position of summary row i in the ranking r (0 when absent).
PositionIn(r, row) ==
    IF \E j \in 1..Len(r) : r[j] = row
    THEN CHOOSE j \in 1..Len(r) : r[j] = row
    ELSE 0

\* C10 (as claimed): the ranking is stable on ties: of two rows that pass
\* the filter with equal SavingsPercentage, the one first in the input
\* summary is first in the output.
C10_StableOnTies ==
    AfterRank =>
        LET s == call.savings_summary
            r == result.value
        IN  \A i, j \in 1..Len(s) :
                (/\ i < j
                 /\ Exceeds(s[i].SavingsPercentage, call.threshold)
                 /\ s[i].SavingsPercentage = s[j].SavingsPercentage)
                => PositionIn(r, s[i]) < PositionIn(r, s[j])

\* C10 (amended): of two rows that pass the filter, the one with the
\* greater SavingsPercentage comes first in the output; two rows of equal
\* SavingsPercentage are both in the output at distinct positions, next to
\* each other or separated only by rows of the same SavingsPercentage, in
\* either order.
C10_TiesInSomeOrder ==
    AfterRank =>
        LET s == call.savings_summary
            r == result.value
        IN  \A i, j \in 1..Len(s) :
                (/\ i # j
                 /\ Exceeds(s[i].SavingsPercentage, call.threshold)
                 /\ Exceeds(s[j].SavingsPercentage, call.threshold))
                => LET pi == PositionIn(r, s[i])
                       pj == PositionIn(r, s[j])
                   IN  /\ pi # 0 /\ pj # 0 /\ pi # pj
                       /\ RanksAbove(s[i].SavingsPercentage, s[j].SavingsPercentage)
                             => pi < pj
                       /\ s[i].SavingsPercentage = s[j].SavingsPercentage =>
                             \A m \in 1..Len(r) :
                                 ((pi < m /\ m < pj) \/ (pj < m /\ m < pi)) =>
                                     r[m].SavingsPercentage = s[i].SavingsPercentage

\* C10 witness: two tied rows pass the filter, a third row ranks above
\* them, and the tied rows come out in the reverse of their input order.
C10_Witness ==
    /\ AfterRank
    /\ Len(result.value) = 3
    /\ \E i, j \in 1..3 :
          /\ i < j
          /\ call.savings_summary[i].SavingsPercentage =
                call.savings_summary[j].SavingsPercentage
          /\ PositionIn(result.value, call.savings_summary[j]) <
                PositionIn(result.value, call.savings_summary[i])
          /\ RanksAbove(result.value[1].SavingsPercentage,
                        call.savings_summary[i].SavingsPercentage)

\* ---------------------------------------- statements: runners and shaping

Returned(fn) == call.fn = fn /\ result.raised = ""

\* The positions of the input rows whose cell in column col is a number.
NumericRowsOf(I, col) == {i \in I : data.rows[i][col][2] > 0}

\* The arithmetic sum of column col over the input rows at positions I.
ColumnSum(I, col) ==
    LET J == NumericRowsOf(I, col)
    IN  SumOver(J, [j \in J |-> data.rows[j][col][1]])

\* C3: for disjoint value sets, segment_data returns two groups such that
\* every input row is in at most one of them, group_a holds exactly the input
\* rows whose value in column is in values_group_a and group_b those whose
\* value is in values_group_b, so that their union is exactly the set of
\* input rows matching either set.
C3_SegmentsPartitionMatches ==
    (Returned("segment_data") /\ call.values_group_a \cap call.values_group_b = {}) =>
        LET a == result.value[1]
            b == result.value[2]
            labels(t) == {t.index[i] : i \in 1..Len(t.index)}
            matching(values) ==
                {i \in 1..Len(data.rows) : data.rows[i][call.column] \in values}
        IN  /\ labels(a) \cap labels(b) = {}
            /\ labels(a) = matching(call.values_group_a)
            /\ labels(b) = matching(call.values_group_b)
            /\ labels(a) \cup labels(b) =
                  matching(call.values_group_a \cup call.values_group_b)
            /\ \A t \in {a, b} :
                  /\ Len(t.rows) = Len(t.index)
                  /\ Len(t.index) = Cardinality(labels(t))
                  /\ \A i \in 1..Len(t.index) : t.rows[i] = data.rows[t.index[i]]

\* C3 witness: disjoint value sets, both groups non-empty, group_b holding a
\* row matched through the missing value, and an input row in neither.
C3_Witness ==
    /\ Returned("segment_data")
    /\ call.values_group_a = {"A"}
    /\ call.values_group_b = {"B", NA}
    /\ Len(result.value[1].rows) = 1
    /\ Len(result.value[2].rows) = 2
    /\ \E i \in 1..2 : result.value[2].rows[i].g = NA

\* C4 (as claimed): aggregate_by_group returns one row per distinct value of
\* group_column, and for each metric the row's sum is the arithmetic sum of
\* the metric over the group's input rows and its mean is that sum divided by
\* the number of rows of the group.
C4_MeanOverGroupRows ==
    Returned("aggregate_by_group") =>
        LET s == result.value
            present == {k \in Keys : RowsOf(call.group_column, k) # {}}
        IN  /\ {s[i].group : i \in 1..Len(s)} = present
            /\ Len(s) = Cardinality(present)
            /\ \A i \in 1..Len(s) : \A m \in DOMAIN s[i].agg :
                  LET I == RowsOf(call.group_column, s[i].group)
                  IN  /\ s[i].agg[m].sum = <<ColumnSum(I, m), 1>>
                      /\ IsQuotient(s[i].agg[m].mean, ColumnSum(I, m), Cardinality(I))

\* C4 (amended): aggregate_by_group returns one row per distinct non-missing
\* value of group_column, and for each metric the row's sum is the sum of the
\* metric's non-missing values over the group's input rows and its mean is
\* that sum divided by the number of those non-missing values (NaN when the
\* group has none).
C4_MeanOverPresentValues ==
    Returned("aggregate_by_group") =>
        LET s == result.value
            present == {k \in Keys : RowsOf(call.group_column, k) # {}}
        IN  /\ {s[i].group : i \in 1..Len(s)} = present
            /\ Len(s) = Cardinality(present)
            /\ \A i \in 1..Len(s) :
                  /\ DOMAIN s[i].agg = {call.metrics[j] : j \in 1..Len(call.metrics)}
                  /\ \A m \in DOMAIN s[i].agg :
                        LET I == RowsOf(call.group_column, s[i].group)
                            n == Cardinality(NumericRowsOf(I, m))
                        IN  /\ s[i].agg[m].sum = <<ColumnSum(I, m), 1>>
                            /\ IF n = 0 THEN s[i].agg[m].mean = NaN
                               ELSE IsQuotient(s[i].agg[m].mean, ColumnSum(I, m), n)

\* C4 witness: a group of three rows, one of them missing its metric, whose
\* sum is 1 and whose mean is 1/2 (not 1/3).
C4_Witness ==
    /\ Returned("aggregate_by_group")
    /\ \E i \in 1..Len(result.value) :
          /\ Cardinality(RowsOf("g", result.value[i].group)) = 3
          /\ result.value[i].agg["x"].sum = <<1, 1>>
          /\ result.value[i].agg["x"].mean = <<1, 2>>

TestRunners ==
    {"perform_t_test", "perform_chi2_test", "perform_anova_test",
     "perform_mannwhitneyu_test"}

\* C5: in every result record a test runner returns, whatever p_value the
\* statistics routine produced, significant is true exactly when
\* p_value < 0.05 (p_value a number below 5/100; never for NaN).
C5_SignificantIffBelowLevel ==
    (call.fn \in TestRunners /\ result.raised = "") =>
        LET p == result.value.p_value
        IN  /\ p = call.outcome.p_value
            /\ result.value.significant <=> (p[2] > 0 /\ p[1] * 100 < 5 * p[2])

\* C5 witness: a runner returned a record whose p_value is exactly 0.05 and
\* whose flag is false.
C5_Witness ==
    /\ call.fn \in TestRunners
    /\ result.raised = ""
    /\ result.value.p_value = <<1, 20>>
    /\ ~result.value.significant

\* The number of input rows with column1 = v whose column2 cell is a number
\* above the threshold (b true) or is not (b false).
CountOf(v, b) ==
    Cardinality({i \in 1..Len(data.rows) :
        /\ data.rows[i][call.column1] = v
        /\ b <=> (/\ data.rows[i][call.column2][2] > 0
                  /\ data.rows[i][call.column2][1] > call.threshold[1])})

\* C6: the cell of generate_contingency_table for (v, b) holds the number of
\* input rows with column1 = v and (column2 > threshold) = b, the comparison
\* strict; a column for b exists only if some row yields b, so when every
\* row is above the threshold or every row is not, the table has a single
\* column (none when no row has a column1 value).
C6_ContingencyCounts ==
    Returned("generate_contingency_table") =>
        LET t == result.value
            rowLabels == {t.index[i] : i \in 1..Len(t.index)}
            colLabels == {t.columns[i] : i \in 1..Len(t.columns)}
        IN  /\ \A v \in Keys, b \in BOOLEAN :
                  IF v \in rowLabels /\ b \in colLabels
                  THEN t.cells[<<v, b>>] = CountOf(v, b)
                  ELSE CountOf(v, b) = 0
            /\ \A b \in colLabels : \E v \in Keys : CountOf(v, b) > 0
            /\ (\E b \in BOOLEAN : \A v \in Keys : CountOf(v, ~b) = 0) =>
                  /\ Cardinality(colLabels) <= 1
                  /\ (\E v \in Keys, b \in BOOLEAN : CountOf(v, b) > 0) =>
                        Cardinality(colLabels) = 1

\* C6 witness: a 2 x 2 table in which a row whose column2 equals the
\* threshold is counted under False.
C6_Witness ==
    /\ Returned("generate_contingency_table")
    /\ call.threshold = <<0, 1>>
    /\ Len(result.value.index) = 2
    /\ Len(result.value.columns) = 2
    /\ \E i \in 1..Len(data.rows) :
          /\ data.rows[i].x = <<0, 1>>
          /\ result.value.cells[<<data.rows[i].g, FALSE>>] = 1
          /\ result.value.cells[<<data.rows[i].g, TRUE>>] = 0

\* C6 witness of the degenerate case: no row is above the threshold and the
\* table has the single column False.
C6_SingleColumn ==
    /\ Returned("generate_contingency_table")
    /\ Len(result.value.index) = 2
    /\ result.value.columns = <<FALSE>>

\* The column names a call passes.
ColumnArguments ==
    CASE call.fn \in {"perform_t_test", "perform_mannwhitneyu_test"} -> {call.metric}
      [] call.fn = "generate_contingency_table" -> {call.column1, call.column2}
      [] call.fn = "segment_data" -> {call.column}
      [] call.fn = "aggregate_by_group" ->
            {call.group_column} \cup {call.metrics[i] : i \in 1..Len(call.metrics)}
      [] call.fn = "compute_metric" -> {call.column, call.metric_col}
      [] call.fn = "calculate_cost_savings" ->
            {call.group_col, call.cost_col, call.claim_col}
      [] OTHER -> {}

\* C7 (as claimed): a call that passes a column name absent from the table
\* fails with an error; none completes normally.
C7_AbsentColumnFails ==
    ~(ColumnArguments \subseteq data.columns) => result.raised # ""

\* C8: when column and metric_col exist, compute_metric returns the mean of
\* metric_col over the rows with column == condition for 'mean' (NaN when no
\* such row holds a value), their sum for 'sum', and for any other operation
\* returns None without an error.
C8_ComputeMetric ==
    (call.fn = "compute_metric" /\ {call.column, call.metric_col} \subseteq data.columns) =>
        LET I == IF call.condition = NA THEN {} ELSE RowsOf(call.column, call.condition)
            n == Cardinality(NumericRowsOf(I, call.metric_col))
            total == ColumnSum(I, call.metric_col)
        IN  /\ result.raised = ""
            /\ call.operation = "mean" =>
                  IF n = 0 THEN result.value = NaN
                  ELSE IsQuotient(result.value, total, n)
            /\ call.operation = "sum" => result.value = <<total, 1>>
            /\ call.operation \notin {"mean", "sum"} => result.value = None

\* C8 witness: the mean 1/2 of two matching rows.
C8_Witness ==
    /\ Returned("compute_metric")
    /\ call.operation = "mean"
    /\ call.condition = "A"
    /\ Cardinality(RowsOf("g", "A")) = 2
    /\ result.value = <<1, 2>>

\* C8 witness of the unknown operation: None, no error.
C8_UnknownOperation ==
    /\ Returned("compute_metric")
    /\ call.operation = "median"
    /\ call.metric_col = "x"
    /\ result.value = None

=============================================================================
